---- MODULE Spec2Model ----
(***************************************************************************)
(* A model of mediametrics::Item (media/libmediametrics/                   *)
(* MediaMetricsItem.cpp): the property store, merge, the filters and the   *)
(* byte-string codec.                                                      *)
(*                                                                         *)
(* Conventions.                                                            *)
(*  - A C string is the sequence of its bytes without the terminating NUL  *)
(*    (so strlen(s) = Len(s)); the NUL is added where the code copies      *)
(*    strlen+1 bytes.  A null and an empty name are both <<>>.             *)
(*  - A fixed-width value (int32_t, int64_t, double) is the sequence of    *)
(*    the bytes of its object representation: memcpy moves these bytes.    *)
(*    Numbers the codec computes (sizes, counts) are integers, converted   *)
(*    to and from little-endian bytes of their declared width.             *)
(*  - Indices are 0-based as in the code; slot i of the store is           *)
(*    mProps[i + 1].  mProps holds all mPropSize slots, also the ones at   *)
(*    and above mPropCount.                                                *)
(*  - realloc and malloc are taken to succeed.                             *)
(***************************************************************************)
EXTENDS Integers, Sequences, FiniteSets, TLC

VARIABLES item, peer, wire, op, svc

vars == <<item, peer, wire, op, svc>>

----------------------------------------------------------------------------
(* Bounds of the model                                                     *)

\* largest mPropCount the actions let an Item reach
MaxProps == 2

\* longest attrs[] array passed to filter and filterNot
MaxAttrs == 2

----------------------------------------------------------------------------
(* Program constants                                                       *)

UINT16_MAX == 65535

\* the increment of growProps, a constant of the class; the store is modelled
\* with the smallest increment, so that it grows while it holds properties
kGrowProps == 1

kTypeNone == 0
kTypeInt32 == 1
kTypeInt64 == 2
kTypeDouble == 3
kTypeCString == 4
kTypeRate == 5

NO_ERROR == "NO_ERROR"
BAD_VALUE == "BAD_VALUE"
INVALID_OPERATION == "INVALID_OPERATION"

----------------------------------------------------------------------------
(* Item::Prop                                                              *)

\* Prop(): the default-constructed slot
Prop == [mName |-> <<>>, mType |-> kTypeNone, u |-> <<>>]

\* Prop::clear(): frees the name and the string value, type becomes None
PropClear(p) == Prop

\* Prop::setName(name)
setName(p, name) == [p EXCEPT !.mName = name]

\* Prop::isNamed(name): strcmp(name, mName) == 0
isNamed(p, name) == p.mName = name

\* Prop::set(value): releases the old value, stores type and value together
PropSet(p, type, value) == [p EXCEPT !.mType = type, !.u = value]

----------------------------------------------------------------------------
(* Item: construction and the property store                               *)

\* Item(key): no properties, no storage
NewItem(key) ==
    [mKey |-> key, mPid |-> <<255, 255, 255, 255>>, mUid |-> <<255, 255, 255, 255>>,
     mPkgName |-> <<>>, mPkgVersionCode |-> <<0, 0, 0, 0, 0, 0, 0, 0>>,
     mTimestamp |-> <<0, 0, 0, 0, 0, 0, 0, 0>>,
     mProps |-> <<>>, mPropCount |-> 0, mPropSize |-> 0]

RECURSIVE findPropFrom(_, _, _)
findPropFrom(it, name, i) ==
    IF i < it.mPropCount
    THEN IF isNamed(it.mProps[i + 1], name) THEN i ELSE findPropFrom(it, name, i + 1)
    ELSE i

\* the index of the first property named name, mPropCount when there is none
findPropIndex(it, name) == findPropFrom(it, name, 0)

\* n default-constructed slots
RECURSIVE FreshSlots(_)
FreshSlots(n) == IF n = 0 THEN <<>> ELSE Append(FreshSlots(n - 1), Prop)

\* growProps handing out a new block without copying the old slots over
growPropsFresh(it, increment) ==
    LET inc == IF increment <= 0 THEN kGrowProps ELSE increment
        nsize == it.mPropSize + inc
    IN [it EXCEPT !.mProps = FreshSlots(nsize),
                  !.mPropSize = nsize]

\* growProps(increment): nsize slots, the old ones kept, the new ones Prop()
growProps(it, increment) ==
    LET inc == IF increment <= 0 THEN kGrowProps ELSE increment
        nsize == it.mPropSize + inc
    IN [it EXCEPT !.mProps = it.mProps \o FreshSlots(inc),
                  !.mPropSize = nsize]

\* allocateProp(): hands out slot mPropCount as it is, growing when full
allocateProp(it) ==
    LET g == IF it.mPropCount = it.mPropSize THEN growProps(it, 0) ELSE it
    IN [item |-> [g EXCEPT !.mPropCount = @ + 1], index |-> g.mPropCount]

\* allocateProp(name): find-or-allocate
allocatePropNamed(it, name) ==
    LET i == findPropIndex(it, name)
    IN IF i < it.mPropCount
       THEN [item |-> it, index |-> i]
       ELSE LET a == allocateProp(it)
            IN [item |-> [a.item EXCEPT !.mProps[a.index + 1] = setName(@, name)],
                index |-> a.index]

\* set(name, value): allocateProp(name)->set(value)
setProp(it, name, type, value) ==
    LET a == allocatePropNamed(it, name)
    IN [a.item EXCEPT !.mProps[a.index + 1] = PropSet(@, type, value)]

\* removeProp without the swap: the last slot is cut off instead
removePropNoSwap(it, name) ==
    LET i == findPropIndex(it, name)
        last == it.mPropCount - 1
    IN IF i < it.mPropCount
       THEN [item |-> [it EXCEPT !.mProps[i + 1] = PropClear(@), !.mPropCount = last],
             ret |-> TRUE]
       ELSE [item |-> it, ret |-> FALSE]

\* removeProp(name): clear the slot, swap the last one into the gap
removeProp(it, name) ==
    LET i == findPropIndex(it, name)
        last == it.mPropCount - 1
    IN IF i < it.mPropCount
       THEN LET cleared == [it.mProps EXCEPT ![i + 1] = PropClear(@)]
                swapped == IF i # last
                           THEN [cleared EXCEPT ![i + 1] = cleared[last + 1],
                                                ![last + 1] = cleared[i + 1]]
                           ELSE cleared
            IN [item |-> [it EXCEPT !.mProps = swapped, !.mPropCount = last],
                ret |-> TRUE]
       ELSE [item |-> it, ret |-> FALSE]

\* one iteration of the loop of filter (lines 215-231)
filterStep(it, name) ==
    LET j == findPropIndex(it, name)
    IN IF j >= it.mPropCount
       THEN [item |-> it, zapped |-> 0]
       ELSE IF j + 1 = it.mPropCount
       THEN [item |-> [it EXCEPT !.mProps[j + 1] = PropClear(@),
                                 !.mPropCount = @ - 1],
             zapped |-> 1]
       ELSE [item |-> [it EXCEPT !.mProps[j + 1] = it.mProps[it.mPropCount],
                                 !.mPropCount = @ - 1],
             zapped |-> 1]

RECURSIVE filterFrom(_, _, _, _)
filterFrom(it, attrs, i, zapped) ==
    IF i < Len(attrs)
    THEN LET s == filterStep(it, attrs[i + 1])
         IN filterFrom(s.item, attrs, i + 1, zapped + s.zapped)
    ELSE [item |-> it, ret |-> zapped]

\* filter(n, attrs): remove the named properties, return how many
filter(it, attrs) == filterFrom(it, attrs, 0, 0)

\* the loop of filterNot moving on after a removal, past the property just
\* swapped into slot j
RECURSIVE filterNotFromSkip(_, _, _, _, _)
filterNotFromSkip(it, check, j, zapped, fuel) ==
    IF ~(j < it.mPropCount)
    THEN [item |-> it, ret |-> zapped, returned |-> TRUE]
    ELSE IF fuel = 0
    THEN [item |-> it, ret |-> zapped, returned |-> FALSE]
    ELSE IF it.mProps[j + 1].mName \in check
    THEN filterNotFromSkip(it, check, j + 1, zapped, fuel - 1)
    ELSE IF j + 1 = it.mPropCount
    THEN [item |-> [it EXCEPT !.mProps[j + 1] = PropClear(@),
                              !.mPropCount = @ - 1],
          ret |-> zapped + 1, returned |-> TRUE]
    ELSE filterNotFromSkip([it EXCEPT !.mProps[j + 1] = it.mProps[it.mPropCount],
                                      !.mPropCount = @ - 1],
                           check, j + 1, zapped + 1, fuel - 1)

\* the loop of filterNot (lines 241-259); fuel counts the iterations left
\* before the loop is declared not to return
RECURSIVE filterNotFrom(_, _, _, _, _)
filterNotFrom(it, check, j, zapped, fuel) ==
    IF ~(j < it.mPropCount)
    THEN [item |-> it, ret |-> zapped, returned |-> TRUE]
    ELSE IF fuel = 0
    THEN [item |-> it, ret |-> zapped, returned |-> FALSE]
    ELSE IF it.mProps[j + 1].mName \in check
    THEN filterNotFrom(it, check, j + 1, zapped, fuel - 1)
    ELSE IF j + 1 = it.mPropCount
    THEN [item |-> [it EXCEPT !.mProps[j + 1] = PropClear(@),
                              !.mPropCount = @ - 1],
          ret |-> zapped + 1, returned |-> TRUE]
    ELSE filterNotFrom([it EXCEPT !.mProps[j + 1] = it.mProps[it.mPropCount],
                                  !.mPropCount = @ - 1],
                       check, j, zapped + 1, fuel - 1)

\* filterNot(n, attrs): remove the properties not named, return how many
filterNot(it, attrs) ==
    filterNotFrom(it, {attrs[k] : k \in 1..Len(attrs)}, 0, 0, it.mPropCount)

\* the loop of merge keeping the stored property on a collision
RECURSIVE mergeFromKeepOld(_, _, _)
mergeFromKeepOld(it, incoming, i) ==
    IF i < incoming.mPropCount
    THEN LET iprop == incoming.mProps[i + 1]
             o == findPropIndex(it, iprop.mName)
         IN IF Len(iprop.mName) = 0
            THEN mergeFromKeepOld(it, incoming, i + 1)
            ELSE IF o < it.mPropCount
            THEN mergeFromKeepOld(it, incoming, i + 1)
            ELSE LET a == allocatePropNamed(it, iprop.mName)
                 IN mergeFromKeepOld([a.item EXCEPT !.mProps[a.index + 1] = iprop],
                                     incoming, i + 1)
    ELSE it

\* the loop of merge (lines 527-550)
RECURSIVE mergeFrom(_, _, _)
mergeFrom(it, incoming, i) ==
    IF i < incoming.mPropCount
    THEN LET iprop == incoming.mProps[i + 1]
             o == findPropIndex(it, iprop.mName)
         IN IF Len(iprop.mName) = 0
            THEN mergeFrom(it, incoming, i + 1)
            ELSE IF o < it.mPropCount
            THEN mergeFrom([it EXCEPT !.mProps[o + 1] = iprop], incoming, i + 1)
            ELSE LET a == allocatePropNamed(it, iprop.mName)
                 IN mergeFrom([a.item EXCEPT !.mProps[a.index + 1] = iprop],
                              incoming, i + 1)
    ELSE it

\* merge(incoming) as if the key of incoming were always taken
mergeAdoptKey(it, incoming) ==
    mergeFrom([it EXCEPT !.mKey = incoming.mKey], incoming, 0)

\* merge(incoming): adopt the key when empty, then union with overwrite
merge(it, incoming) ==
    mergeFrom(IF Len(it.mKey) = 0 THEN [it EXCEPT !.mKey = incoming.mKey] ELSE it,
              incoming, 0)

----------------------------------------------------------------------------
(* Byte-string codec: insert and extract                                   *)

\* the w little-endian bytes of the number n, 0 <= n < 2^31
RECURSIVE LE(_, _)
LE(n, w) == IF w = 0 THEN <<>> ELSE <<n % 256>> \o LE(n \div 256, w - 1)

\* the number held by at most three little-endian bytes
FromLE(b) == IF Len(b) = 0 THEN 0
             ELSE IF Len(b) = 1 THEN b[1]
             ELSE IF Len(b) = 2 THEN b[1] + 256 * b[2]
             ELSE b[1] + 256 * b[2] + 65536 * b[3]

\* a > b for two unsigned numbers given as little-endian bytes of one width
RECURSIVE GtLEFrom(_, _, _)
GtLEFrom(a, b, k) ==
    IF k = 0 THEN FALSE
    ELSE IF a[k] # b[k] THEN a[k] > b[k]
    ELSE GtLEFrom(a, b, k - 1)

GtLE(a, b) == GtLEFrom(a, b, Len(a))

\* a uint32_t below 2^31 as a number
U32(b) == b[1] + 256 * b[2] + 65536 * b[3] + 16777216 * b[4]

\* a write cursor: the bytes written so far into a region of max bytes
Writer(max) == [out |-> <<>>, max |-> max, st |-> NO_ERROR]

\* insert<T>(val): memcpy of sizeof(T) bytes, refused past the end
insert(bytes, w) ==
    IF w.st # NO_ERROR THEN w
    ELSE IF Len(w.out) + Len(bytes) > w.max THEN [w EXCEPT !.st = BAD_VALUE]
    ELSE [w EXCEPT !.out = @ \o bytes]

\* insert<const char *>(val): strlen + 1 bytes, at most UINT16_MAX
insertString(s, w) ==
    LET size == Len(s) + 1
    IN IF w.st # NO_ERROR THEN w
       ELSE IF size > UINT16_MAX \/ Len(w.out) + size > w.max
       THEN [w EXCEPT !.st = BAD_VALUE]
       ELSE [w EXCEPT !.out = (@ \o s) \o <<0>>]

\* the byte at offset off from bufferptr: inside the supplied length the
\* buffer's byte, beyond it whatever memory follows the buffer
ByteAt(wr, off) ==
    IF off < wr.length THEN wr.bytes[off + 1] ELSE wr.tail[off - wr.length + 1]

\* a read cursor over a buffer; oob records a read at or past the length
Reader == [pos |-> 0, st |-> NO_ERROR, oob |-> FALSE, val |-> <<>>]

\* extract<T>(val): memcpy of size bytes, refused when it would pass the end
extract(size, wr, r) ==
    IF r.st # NO_ERROR THEN r
    ELSE IF r.pos + size > wr.length THEN [r EXCEPT !.st = BAD_VALUE]
    ELSE [r EXCEPT !.val = SubSeq(wr.bytes, r.pos + 1, r.pos + size),
                   !.pos = @ + size]

\* the scan of extract<char *> (lines 607-614): *ptr is read before ptr is
\* compared with bufferptrmax
RECURSIVE scanString(_, _, _)
scanString(wr, ptr, oob) ==
    LET seen == oob \/ ptr >= wr.length
    IN IF ByteAt(wr, ptr) # 0
       THEN IF ptr >= wr.length
            THEN [found |-> FALSE, ptr |-> ptr, oob |-> seen]
            ELSE scanString(wr, ptr + 1, seen)
       ELSE [found |-> TRUE, ptr |-> ptr, oob |-> seen]

\* extract<char *>(val): the string up to its NUL; val is without the NUL
extractString(wr, r) ==
    IF r.st # NO_ERROR THEN r
    ELSE LET s == scanString(wr, r.pos, r.oob)
         IN IF ~s.found THEN [r EXCEPT !.st = BAD_VALUE, !.oob = s.oob]
            ELSE [r EXCEPT !.val = SubSeq(wr.bytes \o wr.tail, r.pos + 1, s.ptr),
                           !.pos = s.ptr + 1,
                           !.oob = s.oob]

----------------------------------------------------------------------------
(* Byte-string codec: properties                                           *)

\* getByteStringSize() as if a property without a value took the one byte
\* of an empty string
getByteStringSizeNoneValue(p) ==
    2 + 1 + Len(p.mName) + 1
        + (IF p.mType = kTypeInt32 THEN 4
           ELSE IF p.mType = kTypeInt64 THEN 8
           ELSE IF p.mType = kTypeDouble THEN 8
           ELSE IF p.mType = kTypeRate THEN 8 + 8
           ELSE IF p.mType = kTypeCString THEN Len(p.u) + 1
           ELSE 1)

\* Prop::getByteStringSize(): length, type, name and NUL, then the payload
getByteStringSize(p) ==
    LET header == 2 + 1 + Len(p.mName) + 1
        payload == IF p.mType = kTypeInt32 THEN 4
                   ELSE IF p.mType = kTypeInt64 THEN 8
                   ELSE IF p.mType = kTypeDouble THEN 8
                   ELSE IF p.mType = kTypeRate THEN 8 + 8
                   ELSE IF p.mType = kTypeCString THEN Len(p.u) + 1
                   ELSE 0
    IN header + payload

\* BaseItem::writeToByteString(name, value) for int32_t, int64_t and double:
\* size is sizeof(value)
writeScalar(name, type, value, size, w) ==
    LET len == 2 + 1 + Len(name) + 1 + size
    IN IF len > UINT16_MAX THEN [w EXCEPT !.st = BAD_VALUE]
       ELSE insert(value, insertString(name, insert(LE(type, 1), insert(LE(len % 65536, 2), w))))

\* BaseItem::writeToByteString(name, std::pair<int64_t, int64_t>)
writeRate(name, value, w) ==
    LET len == 2 + 1 + Len(name) + 1 + 8 + 8
    IN IF len > UINT16_MAX THEN [w EXCEPT !.st = BAD_VALUE]
       ELSE insert(value[2], insert(value[1],
                insertString(name, insert(LE(kTypeRate, 1), insert(LE(len % 65536, 2), w)))))

\* BaseItem::writeToByteString(name, const char *)
writeCString(name, value, w) ==
    LET len == 2 + 1 + Len(name) + 1 + Len(value) + 1
    IN IF len > UINT16_MAX THEN [w EXCEPT !.st = BAD_VALUE]
       ELSE insertString(value,
                insertString(name, insert(LE(kTypeCString, 1), insert(LE(len % 65536, 2), w))))

\* BaseItem::writeToByteString(name, none_t): the type byte written is
\* kTypeCString (line 964)
writeNone(name, w) ==
    LET len == 2 + 1 + Len(name) + 1
    IN IF len > UINT16_MAX THEN [w EXCEPT !.st = BAD_VALUE]
       ELSE insertString(name, insert(LE(kTypeCString, 1), insert(LE(len % 65536, 2), w)))

\* Prop::writeToByteString(): dispatch on the type
PropWriteToByteString(p, w) ==
    IF w.st # NO_ERROR THEN w
    ELSE IF p.mType = kTypeInt32 THEN writeScalar(p.mName, kTypeInt32, p.u, 4, w)
    ELSE IF p.mType = kTypeInt64 THEN writeScalar(p.mName, kTypeInt64, p.u, 8, w)
    ELSE IF p.mType = kTypeDouble THEN writeScalar(p.mName, kTypeDouble, p.u, 8, w)
    ELSE IF p.mType = kTypeRate THEN writeRate(p.mName, p.u, w)
    ELSE IF p.mType = kTypeCString THEN writeCString(p.mName, p.u, w)
    ELSE IF p.mType = kTypeNone THEN writeNone(p.mName, w)
    ELSE [w EXCEPT !.st = BAD_VALUE]

\* the payload switch of Prop::readFromByteString (lines 1011-1032), entered
\* with the name and the type already stored in q
readPayload(q, type, wr, r) ==
    IF type = kTypeInt32 \/ type = kTypeInt64 \/ type = kTypeDouble
    THEN LET v == extract(IF type = kTypeInt32 THEN 4 ELSE 8, wr, r)
         IN [prop |-> IF v.st = NO_ERROR THEN [q EXCEPT !.u = v.val] ELSE q, r |-> v]
    ELSE IF type = kTypeRate
    THEN LET a == extract(8, wr, r)
             b == extract(8, wr, a)
         IN [prop |-> IF b.st = NO_ERROR THEN [q EXCEPT !.u = <<a.val, b.val>>]
                      ELSE IF a.st = NO_ERROR THEN [q EXCEPT !.u = <<a.val>>]
                      ELSE q,
             r |-> b]
    ELSE IF type = kTypeCString
    THEN LET v == extractString(wr, r)
         IN [prop |-> IF v.st = NO_ERROR THEN [q EXCEPT !.u = v.val]
                      ELSE [q EXCEPT !.mType = kTypeNone],
             r |-> v]
    ELSE IF type = kTypeNone
    THEN [prop |-> q, r |-> r]
    ELSE [prop |-> [q EXCEPT !.mType = kTypeNone], r |-> [r EXCEPT !.st = BAD_VALUE]]

\* Prop::readFromByteString(): length, type and name, then the payload; the
\* length read is not used
PropReadFromByteString(p, wr, r) ==
    LET l == extract(2, wr, r)
        t == extract(1, wr, l)
        n == extractString(wr, t)
        type == FromLE(t.val)
        q == [mName |-> n.val, mType |-> type,
              u |-> IF p.mType = kTypeCString THEN <<>> ELSE p.u]
    IN IF n.st # NO_ERROR THEN [prop |-> p, r |-> n]
       ELSE readPayload(q, type, wr, n)

----------------------------------------------------------------------------
(* Byte-string codec: items                                                *)

\* the size accumulation refusing a property of UINT16_MAX bytes
RECURSIVE planSizeStrict(_, _, _)
planSizeStrict(it, i, size) ==
    IF i < it.mPropCount
    THEN LET propSize == getByteStringSize(it.mProps[i + 1])
         IN IF propSize >= UINT16_MAX THEN [ok |-> FALSE, size |-> size]
            ELSE planSizeStrict(it, i + 1, size + propSize)
    ELSE [ok |-> TRUE, size |-> size]

\* the size accumulation of writeToByteString (lines 650-660); the sum
\* stays far below 2^32 for the stores of this model
RECURSIVE planSize(_, _, _)
planSize(it, i, size) ==
    IF i < it.mPropCount
    THEN LET propSize == getByteStringSize(it.mProps[i + 1])
         IN IF propSize > UINT16_MAX THEN [ok |-> FALSE, size |-> size]
            ELSE planSize(it, i + 1, size + propSize)
    ELSE [ok |-> TRUE, size |-> size]

RECURSIVE writeProps(_, _, _)
writeProps(it, i, w) ==
    IF i < it.mPropCount /\ w.st = NO_ERROR
    THEN writeProps(it, i + 1, PropWriteToByteString(it.mProps[i + 1], w))
    ELSE w

\* what writeToByteString leaves in *pbuffer and *plength
Unwritten(status) == [status |-> status, written |-> FALSE, bytes |-> <<>>, length |-> 0]

\* Item::writeToByteString(pbuffer, plength)
writeToByteString(it) ==
    LET keySizeZeroTerminated == Len(it.mKey) + 1
        header_size == 4 + 4 + 2 + 2 + keySizeZeroTerminated + 4 + 4 + 8
        plan == planSize(it, 0, header_size + 4)
        size == plan.size
        header == insert(LE(it.mPropCount, 4),
                  insert(it.mTimestamp,
                  insert(it.mUid,
                  insert(it.mPid,
                  insertString(it.mKey,
                  insert(LE(keySizeZeroTerminated % 65536, 2),
                  insert(LE(0, 2),
                  insert(LE(header_size, 4),
                  insert(LE(size, 4), Writer(size))))))))))
        filling == writeProps(it, 0, header)
    IN IF keySizeZeroTerminated > UINT16_MAX THEN Unwritten(INVALID_OPERATION)
       ELSE IF ~plan.ok THEN Unwritten(INVALID_OPERATION)
       ELSE IF header.st # NO_ERROR THEN Unwritten(INVALID_OPERATION)
       ELSE IF filling.st # NO_ERROR THEN Unwritten(INVALID_OPERATION)
       ELSE IF Len(filling.out) # size THEN Unwritten(INVALID_OPERATION)
       ELSE [status |-> NO_ERROR, written |-> TRUE, bytes |-> filling.out, length |-> size]

\* the property loop of readFromByteString (lines 752-758)
RECURSIVE readProps(_, _, _, _, _)
readProps(it, wr, r, i, propCount) ==
    IF GtLE(propCount, LE(i, 4))
    THEN LET a == allocateProp(it)
             d == PropReadFromByteString(a.item.mProps[a.index + 1], wr, r)
             next == [a.item EXCEPT !.mProps[a.index + 1] = d.prop]
         IN IF d.r.st # NO_ERROR
            THEN [status |-> INVALID_OPERATION, item |-> next, oob |-> d.r.oob]
            ELSE readProps(next, wr, d.r, i + 1, propCount)
    ELSE [status |-> NO_ERROR, item |-> it, oob |-> r.oob]

\* the fixed header accepted without comparing the key with its length
readHeaderAnyKey(wr) ==
    LET size == extract(4, wr, Reader)
        header_size == extract(4, wr, size)
        version == extract(2, wr, header_size)
        key_size == extract(2, wr, version)
        key == extractString(wr, key_size)
        pid == extract(4, wr, key)
        uid == extract(4, wr, pid)
        timestamp == extract(8, wr, uid)
    IN [ok |-> ~ \/ timestamp.st # NO_ERROR
                 \/ GtLE(size.val, LE(wr.length, 4))
                 \/ GtLE(header_size.val, size.val),
        size |-> size.val, header_size |-> header_size.val, key |-> key.val,
        pid |-> pid.val, uid |-> uid.val, timestamp |-> timestamp.val,
        r |-> timestamp]

\* the fixed header of readFromByteString (lines 718-732): the eight
\* extracts, then the three checks; r is the cursor after the last extract
readHeader(wr) ==
    LET size == extract(4, wr, Reader)
        header_size == extract(4, wr, size)
        version == extract(2, wr, header_size)
        key_size == extract(2, wr, version)
        key == extractString(wr, key_size)
        pid == extract(4, wr, key)
        uid == extract(4, wr, pid)
        timestamp == extract(8, wr, uid)
    IN [ok |-> ~ \/ timestamp.st # NO_ERROR
                 \/ GtLE(size.val, LE(wr.length, 4))
                 \/ Len(key.val) + 1 # FromLE(key_size.val)
                 \/ GtLE(header_size.val, size.val),
        size |-> size.val, header_size |-> header_size.val, key |-> key.val,
        pid |-> pid.val, uid |-> uid.val, timestamp |-> timestamp.val,
        r |-> timestamp]

\* readFromByteString storing the key before the header is checked
readFromByteStringEarlyKey(it, wr) ==
    LET h == readHeader(wr)
        keyed == [it EXCEPT !.mKey = h.key]
        pos == h.r.pos
        read == IF pos < U32(h.header_size)
                THEN [h.r EXCEPT !.pos = U32(h.header_size)] ELSE h.r
        propCount == extract(4, wr, read)
    IN IF ~h.ok
       THEN [status |-> INVALID_OPERATION, item |-> keyed, oob |-> h.r.oob]
       ELSE IF pos > U32(h.header_size)
       THEN [status |-> INVALID_OPERATION, item |-> keyed, oob |-> h.r.oob]
       ELSE IF propCount.st # NO_ERROR
       THEN [status |-> INVALID_OPERATION, item |-> keyed, oob |-> propCount.oob]
       ELSE readProps([keyed EXCEPT !.mPid = h.pid, !.mUid = h.uid,
                                    !.mTimestamp = h.timestamp],
                      wr, propCount, 0, propCount.val)

\* Item::readFromByteString(bufferptr, length); wr is the memory at
\* bufferptr with the supplied length
readFromByteString(it, wr) ==
    LET h == readHeader(wr)
        keyed == [it EXCEPT !.mKey = h.key]
        pos == h.r.pos
        read == IF pos < U32(h.header_size)
                THEN [h.r EXCEPT !.pos = U32(h.header_size)] ELSE h.r
        propCount == extract(4, wr, read)
    IN IF ~h.ok
       THEN [status |-> INVALID_OPERATION, item |-> it, oob |-> h.r.oob]
       ELSE IF pos > U32(h.header_size)
       THEN [status |-> INVALID_OPERATION, item |-> keyed, oob |-> h.r.oob]
       ELSE IF propCount.st # NO_ERROR
       THEN [status |-> INVALID_OPERATION, item |-> keyed, oob |-> propCount.oob]
       ELSE readProps([keyed EXCEPT !.mPid = h.pid, !.mUid = h.uid,
                                    !.mTimestamp = h.timestamp],
                      wr, propCount, 0, propCount.val)

----------------------------------------------------------------------------
(* Parcel codec. A Parcel is its data: values are appended at 4-byte       *)
(* aligned positions and read back in the order written.                   *)

NOT_ENOUGH_DATA == "NOT_ENOUGH_DATA"

\* an empty Parcel
Parcel == [data |-> <<>>, st |-> NO_ERROR]

\* n rounded up to a multiple of 4
PadSize(n) == ((n + 3) \div 4) * 4

\* Parcel::writeInt32, writeInt64, writeDouble: the bytes of the value
ParcelWrite(bytes, p) ==
    IF p.st # NO_ERROR THEN p ELSE [p EXCEPT !.data = @ \o bytes]

\* Parcel::writeCString: the string, its NUL, and zeros up to a multiple of 4
ParcelWriteCString(s, p) ==
    IF p.st # NO_ERROR THEN p
    ELSE [p EXCEPT !.data = @ \o s \o [i \in 1..(PadSize(Len(s) + 1) - Len(s)) |-> 0]]

\* a read position in the data of a Parcel; null is a readCString that
\* returned nullptr
ParcelReader == [pos |-> 0, st |-> NO_ERROR, null |-> FALSE, val |-> <<>>]

\* Parcel::readInt32, readInt64, readDouble
ParcelRead(size, data, r) ==
    IF r.st # NO_ERROR THEN r
    ELSE IF r.pos + size > Len(data) THEN [r EXCEPT !.st = NOT_ENOUGH_DATA]
    ELSE [r EXCEPT !.val = SubSeq(data, r.pos + 1, r.pos + size), !.pos = @ + size]

\* Parcel::readCString: the string up to the first NUL in what is left of
\* the data, nullptr when there is none; the position is not moved then
ParcelReadCString(data, r) ==
    LET nuls == {k \in (r.pos + 1)..Len(data) : data[k] = 0}
        eos == CHOOSE k \in nuls : \A j \in nuls : k <= j
    IN IF r.st # NO_ERROR THEN r
       ELSE IF nuls = {} THEN [r EXCEPT !.null = TRUE, !.val = <<>>]
       ELSE [r EXCEPT !.null = FALSE,
                      !.val = SubSeq(data, r.pos + 1, eos - 1),
                      !.pos = @ + PadSize(eos - r.pos)]

\* Prop::writeToParcel: name, type, value; no encoding for kTypeNone
PropWriteToParcel(p, w) ==
    LET named == ParcelWrite(LE(p.mType, 4), ParcelWriteCString(p.mName, w))
    IN IF w.st # NO_ERROR THEN w
       ELSE IF p.mType \in {kTypeInt32, kTypeInt64, kTypeDouble}
       THEN ParcelWrite(p.u, named)
       ELSE IF p.mType = kTypeRate
       THEN ParcelWrite(p.u[2], ParcelWrite(p.u[1], named))
       ELSE IF p.mType = kTypeCString
       THEN ParcelWriteCString(p.u, named)
       ELSE [w EXCEPT !.st = BAD_VALUE]

\* Prop::readFromParcel: the name and the type are stored only when the
\* value has been read
PropReadFromParcel(p, data, r) ==
    LET key == ParcelReadCString(data, r)
        type == ParcelRead(4, data, key)
        Is(t) == type.val = LE(t, 4)
        Done(q, v) == [prop |-> IF v.st = NO_ERROR
                                THEN [setName(q, key.val) EXCEPT !.mType = FromLE(type.val)]
                                ELSE q,
                       r |-> v]
    IN IF key.null THEN [prop |-> p, r |-> [key EXCEPT !.st = BAD_VALUE]]
       ELSE IF type.st # NO_ERROR THEN [prop |-> p, r |-> type]
       ELSE IF Is(kTypeInt32) \/ Is(kTypeInt64) \/ Is(kTypeDouble)
       THEN LET v == ParcelRead(IF Is(kTypeInt32) THEN 4 ELSE 8, data, type)
            IN Done(IF v.st = NO_ERROR THEN [p EXCEPT !.u = v.val] ELSE p, v)
       ELSE IF Is(kTypeCString)
       THEN LET s == ParcelReadCString(data, type)
            IN IF s.null THEN [prop |-> p, r |-> [s EXCEPT !.st = BAD_VALUE]]
               ELSE Done(PropSet(p, kTypeCString, s.val), s)
       ELSE IF Is(kTypeRate)
       THEN LET a == ParcelRead(8, data, type)
                b == ParcelRead(8, data, a)
            IN Done(IF b.st = NO_ERROR THEN PropSet(p, kTypeRate, <<a.val, b.val>>) ELSE p, b)
       ELSE [prop |-> p, r |-> [type EXCEPT !.st = BAD_VALUE]]

\* the property loop of writeToParcel0 (lines 353-356)
RECURSIVE writeParcelProps(_, _, _)
writeParcelProps(it, i, w) ==
    IF i < it.mPropCount /\ w.st = NO_ERROR
    THEN writeParcelProps(it, i + 1, PropWriteToParcel(it.mProps[i + 1], w))
    ELSE w

\* Item::writeToParcel(data): version 0, then writeToParcel0
writeToParcel(it) ==
    LET head == ParcelWrite(it.mTimestamp,
                ParcelWrite(it.mPkgVersionCode,
                ParcelWriteCString(it.mPkgName,
                ParcelWrite(it.mUid,
                ParcelWrite(it.mPid,
                ParcelWriteCString(it.mKey,
                ParcelWrite(LE(0, 4), Parcel)))))))
    IN IF head.st # NO_ERROR THEN head
       ELSE writeParcelProps(it, 0, ParcelWrite(LE(it.mPropCount, 4), head))

\* the property loop of readFromParcel0 (lines 318-322); count is below 2^31
RECURSIVE readParcelProps(_, _, _, _, _)
readParcelProps(it, data, r, i, count) ==
    IF GtLE(count, LE(i, 4))
    THEN LET a == allocateProp(it)
             d == PropReadFromParcel(a.item.mProps[a.index + 1], data, r)
             next == [a.item EXCEPT !.mProps[a.index + 1] = d.prop]
         IN IF d.r.st # NO_ERROR
            THEN [status |-> d.r.st, item |-> next]
            ELSE readParcelProps(next, data, d.r, i + 1, count)
    ELSE [status |-> NO_ERROR, item |-> it]

\* readFromParcel taking the timestamp before the package version code
readFromParcelSwapped(it, data) ==
    LET ver == ParcelRead(4, data, ParcelReader)
        key == ParcelReadCString(data, ver)
        pid == ParcelRead(4, data, key)
        uid == ParcelRead(4, data, pid)
        pkg == ParcelReadCString(data, uid)
        timestamp == ParcelRead(8, data, pkg)
        version == ParcelRead(8, data, timestamp)
        count == ParcelRead(4, data, version)
        keyed == [it EXCEPT !.mKey = key.val]
        named == [keyed EXCEPT !.mPid = pid.val, !.mUid = uid.val,
                               !.mPkgName = pkg.val]
    IN IF ver.st # NO_ERROR THEN [status |-> ver.st, item |-> it]
       ELSE IF ver.val # LE(0, 4) THEN [status |-> INVALID_OPERATION, item |-> it]
       ELSE IF uid.st # NO_ERROR THEN [status |-> uid.st, item |-> keyed]
       ELSE IF count.st # NO_ERROR THEN [status |-> count.st, item |-> named]
       ELSE IF count.val[4] >= 128 THEN [status |-> BAD_VALUE, item |-> named]
       ELSE readParcelProps([named EXCEPT !.mPkgVersionCode = version.val,
                                          !.mTimestamp = timestamp.val],
                            data, count, 0, count.val)

\* Item::readFromParcel(data): the version, then readFromParcel0
readFromParcel(it, data) ==
    LET ver == ParcelRead(4, data, ParcelReader)
        key == ParcelReadCString(data, ver)
        pid == ParcelRead(4, data, key)
        uid == ParcelRead(4, data, pid)
        pkg == ParcelReadCString(data, uid)
        version == ParcelRead(8, data, pkg)
        timestamp == ParcelRead(8, data, version)
        count == ParcelRead(4, data, timestamp)
        keyed == [it EXCEPT !.mKey = key.val]
        named == [keyed EXCEPT !.mPid = pid.val, !.mUid = uid.val,
                               !.mPkgName = pkg.val]
    IN IF ver.st # NO_ERROR THEN [status |-> ver.st, item |-> it]
       ELSE IF ver.val # LE(0, 4) THEN [status |-> INVALID_OPERATION, item |-> it]
       ELSE IF uid.st # NO_ERROR THEN [status |-> uid.st, item |-> keyed]
       ELSE IF count.st # NO_ERROR THEN [status |-> count.st, item |-> named]
       ELSE IF count.val[4] >= 128 THEN [status |-> BAD_VALUE, item |-> named]
       ELSE readParcelProps([named EXCEPT !.mPkgVersionCode = version.val,
                                          !.mTimestamp = timestamp.val],
                            data, count, 0, count.val)

----------------------------------------------------------------------------
(* Inputs                                                                  *)

\* the names "a" and "b" the callers use
Names == {<<97>>, <<98>>}

\* Seq(Names) up to MaxAttrs entries: repeated names and names that are
\* not stored are among them
RECURSIVE AttrsOfLen(_)
AttrsOfLen(n) ==
    IF n = 0 THEN {<<>>}
    ELSE {Append(a, x) : a \in AttrsOfLen(n - 1), x \in Names}

AttrLists == UNION {AttrsOfLen(n) : n \in 0..MaxAttrs}

\* the typed value the setters store: the string "x"; values of the other
\* types come into the store from the records merged and decoded
SetValues == {<<kTypeCString, <<120>>>>}

\* an Item as a caller builds it: Item(key), then one set per entry
RECURSIVE BuildFrom(_, _, _)
BuildFrom(it, entries, i) ==
    IF i <= Len(entries)
    THEN BuildFrom(setProp(it, entries[i][1], entries[i][2], entries[i][3]), entries, i + 1)
    ELSE it

BuildItem(key, entries) == BuildFrom(NewItem(key), entries, 1)

Int64Two == <<2, 0, 0, 0, 0, 0, 0, 0>>

\* the records merged into and decoded into the Item under test
Incoming ==
    { BuildItem(<<107>>, << <<<<97>>, kTypeInt32, <<2, 0, 0, 0>>>> >>),
      BuildItem(<<107>>, << <<<<97>>, kTypeCString, <<121>>>>, <<<<99>>, kTypeInt64, Int64Two>> >>),
      BuildItem(<<>>, << <<<<>>, kTypeInt32, <<2, 0, 0, 0>>>>, <<<<98>>, kTypeNone, <<>>>> >>) }

\* the memory that follows a buffer: what a read past the end finds there
Tails == {<<0, 0>>, <<0, 1>>, <<1, 0>>, <<1, 1>>}

NoWire == [bytes |-> <<>>, length |-> 0, tail |-> <<0, 0>>, written |-> FALSE]

\* the buffer an encode handed out, as the memory a decoder is given
WireOf(e, tail) ==
    [bytes |-> e.bytes, length |-> e.length, tail |-> tail, written |-> e.written]

\* a call that has returned and whose result the caller has not yet taken:
\* the function and the Item before the call; the arguments (name, attrs,
\* incoming, buffer, and for a record too long to keep the strlen of its
\* key, of its name and of its string value and its type) and the results
\* (incomingAfter for the record passed by pointer, ret for a count or an
\* index, ok for a bool, status for a status_t, oob for a read outside the
\* buffer, returned for a loop that ended) are filled in by the action
Call(fn, pre) ==
    [fn |-> fn, pre |-> pre,
     name |-> <<>>, attrs |-> <<>>, incoming |-> NewItem(<<>>),
     incomingAfter |-> NewItem(<<>>), buffer |-> NoWire,
     keyLen |-> 0, nameLen |-> 0, type |-> kTypeNone, valueLen |-> 0,
     ret |-> 0, ok |-> FALSE, status |-> NO_ERROR, oob |-> FALSE, returned |-> TRUE]

\* no call outstanding
Idle == Call("idle", NewItem(<<>>))

----------------------------------------------------------------------------
(* The service singleton: getInstance and dropInstance                     *)

\* number of times getInstance tries to bind before it gives up
SVC_TRIES == 2

\* number of threads that call getInstance and dropInstance
NumThreads == 2

Threads == 1..NumThreads

\* an sp<IMediaMetricsService> that holds nothing
nullptr == "nullptr"

\* an sp<IMediaMetricsService> that holds the bound service
service == "service"

\* what the lookup of "media.metrics" can come back with: no service
\* manager, a service manager that does not know the service, or the binder
Lookups == {"no service manager", "no binder", "binder"}

\* one thread: where it is in its call (pc) and, for a getInstance call, what
\* the call has done so far: looked (it asked the service manager), handle
\* (the sp it returns), and what was true when it began or took the mutex:
\* exhausted (SVC_TRIES lookups had failed since the last dropInstance),
\* dropped (a dropInstance has run since the call began), first (no other
\* getInstance had begun since a dropInstance completed) and firstIn (no
\* other getInstance had taken the mutex since a dropInstance released it)
Caller ==
    [pc |-> "idle", looked |-> FALSE, handle |-> nullptr, exhausted |-> FALSE,
     dropped |-> FALSE, first |-> FALSE, firstIn |-> FALSE]

\* the statics of the process before any call: the local static enabled of
\* getInstance, sMediaMetricsService, sRemainingBindAttempts and
\* sServiceMutex (0 when free, else the thread that holds it), with the
\* history the claims speak of: fails (lookups failed since the last
\* dropInstance, counted up to SVC_TRIES), awaiting (a dropInstance has
\* completed and no getInstance has begun since) and fresh (a dropInstance
\* has released the mutex and no getInstance has taken it since)
NoService ==
    [enabled |-> TRUE, sMediaMetricsService |-> nullptr,
     sRemainingBindAttempts |-> SVC_TRIES, sServiceMutex |-> 0,
     fails |-> 0, awaiting |-> FALSE, fresh |-> FALSE,
     th |-> [t \in Threads |-> Caller]]

\* getInstance as if a failed lookup did not use up an attempt
getInstanceLockedNoCount(s, lookup) ==
    IF s.sMediaMetricsService = nullptr /\ s.sRemainingBindAttempts > 0
    THEN [s |-> [s EXCEPT !.sMediaMetricsService =
                              IF lookup = "binder" THEN service ELSE nullptr],
          looked |-> TRUE]
    ELSE [s |-> s, looked |-> FALSE]

\* the part of getInstance that runs with sServiceMutex held: with no handle
\* and attempts left it looks the service up, keeps the handle when the
\* binder is found and gives up one attempt when it is not; s is the statics
\* after it and looked tells whether the lookup was made
getInstanceLocked(s, lookup) ==
    IF s.sMediaMetricsService = nullptr /\ s.sRemainingBindAttempts > 0
    THEN LET bound == IF lookup = "binder" THEN service ELSE nullptr
         IN [s |-> [s EXCEPT !.sMediaMetricsService = bound,
                             !.sRemainingBindAttempts =
                                 IF bound = nullptr /\ @ > 0 THEN @ - 1 ELSE @],
             looked |-> TRUE]
    ELSE [s |-> s, looked |-> FALSE]

\* dropInstance as if it only cleared the handle
dropInstanceLockedKeepBudget(s) ==
    [s EXCEPT !.sMediaMetricsService = nullptr]

\* the part of dropInstance that runs with sServiceMutex held
dropInstanceLocked(s) ==
    [s EXCEPT !.sRemainingBindAttempts = SVC_TRIES,
              !.sMediaMetricsService = nullptr]

----------------------------------------------------------------------------
(* The property store, merge and decode applied to one Item                *)

Init ==
    /\ item = NewItem(<<>>)
    /\ peer = NewItem(<<>>)
    /\ wire = NoWire
    /\ op = Idle
    /\ svc = NoService

AllocateProp ==
    /\ op.fn = "idle"
    /\ \E name \in Names :
        LET a == allocatePropNamed(item, name)
        IN /\ a.item.mPropCount <= MaxProps
           /\ item' = a.item
           /\ op' = [Call("allocateProp", item) EXCEPT !.name = name, !.ret = a.index]
           /\ UNCHANGED <<peer, wire, svc>>

SetProp ==
    /\ op.fn = "idle"
    /\ \E name \in Names, v \in SetValues :
        LET next == setProp(item, name, v[1], v[2])
        IN /\ next.mPropCount <= MaxProps
           /\ item' = next
           /\ op' = [Call("set", item) EXCEPT !.name = name]
           /\ UNCHANGED <<peer, wire, svc>>

RemoveProp ==
    /\ op.fn = "idle"
    /\ \E name \in Names :
        LET r == removeProp(item, name)
        IN /\ item' = r.item
           /\ op' = [Call("removeProp", item) EXCEPT !.name = name, !.ok = r.ret]
           /\ UNCHANGED <<peer, wire, svc>>

Filter ==
    /\ op.fn = "idle"
    /\ \E attrs \in AttrLists :
        LET r == filter(item, attrs)
        IN /\ item' = r.item
           /\ op' = [Call("filter", item) EXCEPT !.attrs = attrs, !.ret = r.ret]
           /\ UNCHANGED <<peer, wire, svc>>

FilterNot ==
    /\ op.fn = "idle"
    /\ \E attrs \in AttrLists :
        LET r == filterNot(item, attrs)
        IN /\ item' = r.item
           /\ op' = [Call("filterNot", item) EXCEPT !.attrs = attrs, !.ret = r.ret,
                                                 !.returned = r.returned]
           /\ UNCHANGED <<peer, wire, svc>>

\* merge(incoming): the code reads incoming through the pointer (its key,
\* count and slots) and assigns nothing through it, so the record the
\* caller holds after the call is the one it passed
Merge ==
    /\ op.fn = "idle"
    /\ \E incoming \in Incoming :
        LET next == merge(item, incoming)
        IN /\ next.mPropCount <= MaxProps
           /\ item' = next
           /\ op' = [Call("merge", item) EXCEPT !.incoming = incoming,
                                                !.incomingAfter = incoming,
                                                !.ok = TRUE]
           /\ UNCHANGED <<peer, wire, svc>>

\* readFromByteString on the buffer writeToByteString made of a record
ReadEncoded ==
    /\ op.fn = "idle"
    /\ \E incoming \in Incoming, tail \in Tails :
        LET e == writeToByteString(incoming)
            d == readFromByteString(item, WireOf(e, tail))
        IN /\ d.item.mPropCount <= MaxProps
           /\ item' = d.item
           /\ op' = [Call("readFromByteString", item) EXCEPT
                        !.incoming = incoming, !.buffer = WireOf(e, tail),
                        !.status = d.status, !.oob = d.oob]
           /\ UNCHANGED <<peer, wire, svc>>

\* the caller takes the result of the call
Return ==
    /\ op.fn # "idle"
    /\ op' = Idle
    /\ UNCHANGED <<item, peer, wire, svc>>

Next ==
    \/ AllocateProp
    \/ SetProp
    \/ RemoveProp
    \/ Filter
    \/ FilterNot
    \/ Merge
    \/ ReadEncoded
    \/ Return

Spec == Init /\ [][Next]_vars

----------------------------------------------------------------------------
(* Properties of the store, merge and the filters                          *)

\* the stored properties: the slots below mPropCount
Stored(it) == {it.mProps[i] : i \in 1..it.mPropCount}

StoredNames(it) == {p.mName : p \in Stored(it)}

\* how many stored properties equal e
CountOf(it, e) == Cardinality({i \in 1..it.mPropCount : it.mProps[i] = e})

\* the stored properties have pairwise different names
DistinctNames(it) ==
    \A i, j \in 1..it.mPropCount : i # j => it.mProps[i].mName # it.mProps[j].mName

\* C4: in every state of a Record reached from an empty Record by
\* allocateProp(name), removeProp, filter, filterNot, merge and
\* readFromByteString, no two properties below mPropCount have the same
\* non-empty name.
C4_NamesUnique ==
    \A i, j \in 1..item.mPropCount :
        (i # j /\ Len(item.mProps[i].mName) > 0)
            => item.mProps[i].mName # item.mProps[j].mName

\* the last property of incoming with the name n
LastNamed(incoming, n) ==
    incoming.mProps[CHOOSE i \in 1..incoming.mPropCount :
        /\ incoming.mProps[i].mName = n
        /\ \A k \in (i + 1)..incoming.mPropCount : incoming.mProps[k].mName # n]

\* C6: after target.merge(incoming), for every non-empty name n the target
\* holds n with incoming's type and value if incoming had a property named
\* n, otherwise every property named n is where and what it was before (or
\* n is still absent); no property of target absent from incoming is
\* removed, and empty-named incoming properties add nothing: the count
\* grows by the number of non-empty incoming names that were not stored.
C6_MergeUnion ==
    op.fn = "merge" =>
        LET pre == op.pre
            incoming == op.incoming
            inNames == {n \in StoredNames(incoming) : Len(n) > 0}
        IN /\ \A n \in inNames :
                /\ findPropIndex(item, n) < item.mPropCount
                /\ item.mProps[findPropIndex(item, n) + 1] = LastNamed(incoming, n)
           /\ \A i \in 1..pre.mPropCount :
                pre.mProps[i].mName \notin inNames => item.mProps[i] = pre.mProps[i]
           /\ \A i \in 1..item.mPropCount :
                item.mProps[i].mName \notin inNames
                    => (i <= pre.mPropCount /\ item.mProps[i] = pre.mProps[i])
           /\ item.mPropCount >= pre.mPropCount
           /\ item.mPropCount =
                pre.mPropCount + Cardinality(inNames \ StoredNames(pre))
           /\ op.ok

\* a merge that overwrote a stored property with another value and added a
\* property under a new name
C6_Witness ==
    /\ op.fn = "merge"
    /\ \E n \in StoredNames(op.incoming) \cap StoredNames(op.pre) :
          Len(n) > 0 /\ LastNamed(op.incoming, n) \notin Stored(op.pre)
    /\ item.mPropCount > op.pre.mPropCount

\* a merge that skipped an empty-named property of incoming and kept the
\* stored properties, none of which incoming has
C6_WitnessSkip ==
    /\ op.fn = "merge"
    /\ <<>> \in StoredNames(op.incoming)
    /\ op.pre.mPropCount > 0
    /\ StoredNames(op.pre) \cap StoredNames(op.incoming) = {}

\* C7: for every store of k properties with distinct names and every name
\* P present in it, removeProp(P) returns true and leaves k-1 properties
\* whose set of (name, type, value) entries is the original set minus P;
\* for a name not present it returns false and leaves count and contents
\* unchanged.
C7_SwapRemove ==
    (op.fn = "removeProp" /\ DistinctNames(op.pre)) =>
        LET pre == op.pre
            P == op.name
        IN IF P \in StoredNames(pre)
           THEN /\ op.ok
                /\ item.mPropCount = pre.mPropCount - 1
                /\ Stored(item) = {p \in Stored(pre) : p.mName # P}
                /\ DistinctNames(item)
           ELSE /\ ~op.ok
                /\ item.mPropCount = pre.mPropCount
                /\ \A i \in 1..pre.mPropCount : item.mProps[i] = pre.mProps[i]

\* removeProp took a property that was not the last one of the store
C7_Witness ==
    /\ op.fn = "removeProp"
    /\ DistinctNames(op.pre)
    /\ op.ok
    /\ op.pre.mPropCount >= 2
    /\ findPropIndex(op.pre, op.name) + 1 < op.pre.mPropCount

\* C8: filter(n, attrs) removes exactly the stored properties whose name
\* occurs in attrs (names listed more than once or not stored have no
\* additional effect), keeps every other property unchanged, and returns
\* the number of properties removed, the decrease of mPropCount.
C8_Filter ==
    op.fn = "filter" =>
        LET pre == op.pre
            A == {op.attrs[k] : k \in 1..Len(op.attrs)}
        IN /\ \A e \in Stored(pre) \cup Stored(item) :
                CountOf(item, e) = IF e.mName \in A THEN 0 ELSE CountOf(pre, e)
           /\ op.ret = pre.mPropCount - item.mPropCount

\* C9: filterNot(n, attrs) returns for every store and name list; the
\* store then holds exactly the original properties whose name is in
\* attrs, each unchanged, and the value returned is the original count
\* minus the final count.
C9_FilterNot ==
    op.fn = "filterNot" =>
        LET pre == op.pre
            A == {op.attrs[k] : k \in 1..Len(op.attrs)}
        IN /\ op.returned
           /\ \A e \in Stored(pre) \cup Stored(item) :
                CountOf(item, e) = IF e.mName \in A THEN CountOf(pre, e) ELSE 0
           /\ op.ret = pre.mPropCount - item.mPropCount

\* filterNot removed a property that was not the last one and kept another
C9_Witness ==
    /\ op.fn = "filterNot"
    /\ op.pre.mPropCount >= 2
    /\ op.pre.mProps[1].mName \notin {op.attrs[k] : k \in 1..Len(op.attrs)}
    /\ item.mPropCount >= 1
    /\ op.ret >= 1

\* a call that appended a slot through allocateProp(name)
Appended ==
    /\ op.fn \in {"allocateProp", "set"}
    /\ item.mPropCount = op.pre.mPropCount + 1

\* C10: when properties are appended through allocateProp(name), also
\* across growProps, every property stored before keeps its name, type and
\* value at its index; mPropSize grows by the increment kGrowProps when
\* the store was full and is unchanged otherwise; and mPropSize >=
\* mPropCount in every reachable state.
C10_Growth ==
    /\ item.mPropSize >= item.mPropCount
    /\ Len(item.mProps) = item.mPropSize
    /\ Appended =>
          /\ \A i \in 1..op.pre.mPropCount : item.mProps[i] = op.pre.mProps[i]
          /\ item.mPropSize = IF op.pre.mPropCount = op.pre.mPropSize
                              THEN op.pre.mPropSize + kGrowProps
                              ELSE op.pre.mPropSize

\* an append that grew a store already holding a property with a value
C10_Witness ==
    /\ Appended
    /\ op.pre.mPropCount >= 1
    /\ item.mPropSize > op.pre.mPropSize
    /\ op.pre.mProps[1].mType # kTypeNone

----------------------------------------------------------------------------
(* The byte-string codec: a record is encoded, the buffer is handed over,  *)
(* possibly damaged on the way, and decoded into another Item              *)

\* one value of each property type: none, int32_t 1, int64_t -1, double
\* 1.0, the rate 2/1, the strings "x" and ""
WireValues ==
    { <<kTypeNone, <<>>>>,
      <<kTypeInt32, <<1, 0, 0, 0>>>>,
      <<kTypeInt64, <<255, 255, 255, 255, 255, 255, 255, 255>>>>,
      <<kTypeDouble, <<0, 0, 0, 0, 0, 0, 240, 63>>>>,
      <<kTypeRate, <<<<2, 0, 0, 0, 0, 0, 0, 0>>, <<1, 0, 0, 0, 0, 0, 0, 0>>>>>>,
      <<kTypeCString, <<120>>>>,
      <<kTypeCString, <<>>>> }

\* the lists of at most n sets of a value under a name
RECURSIVE EntryLists(_)
EntryLists(n) ==
    IF n = 0 THEN {<<>>}
    ELSE LET shorter == EntryLists(n - 1)
         IN shorter \cup {Append(l, <<name, v[1], v[2]>>) :
                              l \in shorter, name \in Names, v \in WireValues}

\* setPid(7), setUid(1000), setTimestamp(5)
Stamped(it) ==
    [it EXCEPT !.mPid = <<7, 0, 0, 0>>, !.mUid = <<232, 3, 0, 0>>,
               !.mTimestamp = <<5, 0, 0, 0, 0, 0, 0, 0>>]

\* most properties a record handed to the encoder holds
MaxWireProps == 2

\* how far beyond the largest key size the keys of WriteLongKey go
MaxKeyOver == 1

\* lengths of keys whose size with the NUL does not fit 16 bits
LongKeyLens == UINT16_MAX..(UINT16_MAX + MaxKeyOver)

\* a C string of n letters
Letters(n) == [i \in 1..n |-> 97]

\* the records encoded: the empty record, and records with a key, identity
\* fields and properties of every type
Records ==
    {BuildItem(<<>>, l) : l \in EntryLists(MaxWireProps)}
        \cup {Stamped(BuildItem(<<107>>, l)) : l \in EntryLists(MaxWireProps)}

InitCodec ==
    /\ item = NewItem(<<>>)
    /\ peer \in Records
    /\ wire = NoWire
    /\ op = Idle
    /\ svc = NoService

\* the sender: peer.writeToByteString(&buffer, &length), a const method;
\* the bytes that follow the buffer in memory are not the encoder's
WriteToByteString ==
    /\ op.fn = "idle"
    /\ ~wire.written
    /\ \E tail \in Tails :
        LET e == writeToByteString(peer)
        IN /\ wire' = WireOf(e, tail)
           /\ op' = [Call("writeToByteString", item) EXCEPT
                        !.keyLen = Len(peer.mKey),
                        !.status = e.status, !.ret = e.length]
           /\ UNCHANGED <<item, peer, svc>>

\* the sender with a key too long for the 16-bit key size: setKey of
\* UINT16_MAX and more letters, then writeToByteString on the record
WriteLongKey ==
    /\ op.fn = "idle"
    /\ ~wire.written
    /\ \E n \in LongKeyLens :
        LET e == writeToByteString([peer EXCEPT !.mKey = Letters(n)])
        IN /\ wire' = WireOf(e, wire.tail)
           /\ op' = [Call("writeToByteString", item) EXCEPT
                        !.keyLen = n, !.status = e.status, !.ret = e.length]
           /\ UNCHANGED <<item, peer, svc>>

\* the receiver: item.readFromByteString(buffer, length)
ReadFromByteString ==
    /\ op.fn \in {"writeToByteString", "poke", "truncate", "pad"}
    /\ wire.written
    /\ LET d == readFromByteString(item, wire)
       IN /\ item' = d.item
          /\ op' = [Call("readFromByteString", item) EXCEPT
                       !.incoming = peer, !.buffer = wire,
                       !.status = d.status, !.oob = d.oob]
          /\ UNCHANGED <<peer, wire, svc>>

NextCodec ==
    \/ WriteToByteString
    \/ WriteLongKey
    \/ ReadFromByteString

SpecCodec == InitCodec /\ [][NextCodec]_vars

\* C1: for every Record with properties of any of the six types for which
\* writeToByteString succeeds, readFromByteString of the buffer into a
\* fresh Item succeeds and yields the same key, pid, uid, timestamp,
\* property count and, for every property, the same name, type and value.
C1_RoundTrip ==
    op.fn = "readFromByteString" =>
        /\ op.status = NO_ERROR
        /\ item.mKey = peer.mKey
        /\ item.mPid = peer.mPid
        /\ item.mUid = peer.mUid
        /\ item.mTimestamp = peer.mTimestamp
        /\ item.mPropCount = peer.mPropCount
        /\ \A i \in 1..peer.mPropCount : item.mProps[i] = peer.mProps[i]

----------------------------------------------------------------------------
(* Decoding buffers that are not what the encoder wrote: one byte changed, *)
(* or a shorter length handed to readFromByteString                        *)

\* the records whose encodings are damaged
DecodeSources ==
    { NewItem(<<>>),
      Stamped(BuildItem(<<107>>, << <<<<97>>, kTypeInt32, <<1, 0, 0, 0>>>>,
                                    <<<<98>>, kTypeCString, <<120>>>> >>)),
      BuildItem(<<107>>, << <<<<97>>, kTypeCString, <<>>>>,
                            <<<<98>>, kTypeInt64, Int64Two>> >>),
      BuildItem(<<>>, << <<<<98>>, kTypeDouble, <<0, 0, 0, 0, 0, 0, 240, 63>>>> >>),
      BuildItem(<<107>>, << <<<<97>>, kTypeRate, <<Int64Two, Int64Two>>>> >>),
      BuildItem(<<>>, << <<<<97>>, kTypeCString, <<120>>>> >>) }

\* the Items decoded into: a fresh one, and one that already holds a key,
\* identity fields and a property
Targets ==
    { NewItem(<<>>),
      Stamped(BuildItem(<<106>>, << <<<<97>>, kTypeInt32, <<1, 0, 0, 0>>>> >>)) }

\* the values a damaged byte takes
PokeValues(old) == {0, 1, 255, (old + 1) % 256} \ {old}

InitDecode ==
    /\ item \in Targets
    /\ peer \in DecodeSources
    /\ wire = NoWire
    /\ op = Idle
    /\ svc = NoService

\* one byte of the buffer is overwritten before it is decoded
Poke ==
    /\ op.fn = "writeToByteString"
    /\ wire.written
    /\ \E off \in 0..(wire.length - 1) :
        \E b \in PokeValues(wire.bytes[off + 1]) :
            /\ wire' = [wire EXCEPT !.bytes[off + 1] = b]
            /\ op' = [Call("poke", item) EXCEPT
                         !.incoming = peer, !.buffer = wire, !.ret = off]
            /\ UNCHANGED <<item, peer, svc>>

\* the buffer is handed over with a length shorter than the encoder's
Truncate ==
    /\ op.fn = "writeToByteString"
    /\ wire.written
    /\ \E n \in 0..(wire.length - 1) :
        /\ wire' = [wire EXCEPT !.bytes = SubSeq(wire.bytes, 1, n), !.length = n]
        /\ op' = [Call("truncate", item) EXCEPT
                     !.incoming = peer, !.buffer = wire, !.ret = n]
        /\ UNCHANGED <<item, peer, svc>>

\* most bytes of padding a later version of the format adds to the header
MaxPad == 2

\* the buffer as a sender with a longer header writes it: n more bytes
\* after the timestamp, counted in the total size and in the header size
Pad ==
    /\ op.fn = "writeToByteString"
    /\ wire.written
    /\ \E n \in 1..MaxPad :
        LET fixed == 4 + 4 + 2 + 2 + Len(peer.mKey) + 1 + 4 + 4 + 8
            padded == LE(wire.length + n, 4) \o LE(fixed + n, 4)
                          \o SubSeq(wire.bytes, 9, fixed)
                          \o [i \in 1..n |-> 255]
                          \o SubSeq(wire.bytes, fixed + 1, wire.length)
        IN /\ wire' = [wire EXCEPT !.bytes = padded, !.length = @ + n]
           /\ op' = [Call("pad", item) EXCEPT
                        !.incoming = peer, !.buffer = wire, !.ret = n]
           /\ UNCHANGED <<item, peer, svc>>

NextDecode ==
    \/ WriteToByteString
    \/ Poke
    \/ Truncate
    \/ Pad
    \/ ReadFromByteString

SpecDecode == InitDecode /\ [][NextDecode]_vars

\* the decode that has just returned failed
DecodeFailed == op.fn = "readFromByteString" /\ op.status # NO_ERROR

\* the first n property slots of a and of b are the same
SameProps(a, b, n) == \A i \in 1..n : a.mProps[i] = b.mProps[i]

\* C2 as stated: whenever readFromByteString returns a failure status, the
\* Item is exactly as it was before the call (key, pid, uid, timestamp and
\* properties).
C2_AllOrNothing ==
    DecodeFailed =>
        /\ item.mKey = op.pre.mKey
        /\ item.mPid = op.pre.mPid
        /\ item.mUid = op.pre.mUid
        /\ item.mTimestamp = op.pre.mTimestamp
        /\ item.mPropCount = op.pre.mPropCount
        /\ SameProps(item, op.pre, op.pre.mPropCount)

\* C2 amended: a failed readFromByteString leaves the Item exactly as it
\* was only when the fixed header is rejected; a later failure leaves the
\* decoded key in place, and once a property record has been started also
\* the decoded pid, uid and timestamp and every property decoded up to and
\* including the failing one appended after the properties the Item held,
\* which are never changed, removed or moved.
C2_FailedDecode ==
    DecodeFailed =>
        LET h == readHeader(op.buffer)
        IN /\ ~h.ok => item = op.pre
           /\ h.ok => item.mKey = h.key
           /\ item.mPkgName = op.pre.mPkgName
           /\ item.mPkgVersionCode = op.pre.mPkgVersionCode
           /\ item.mPropCount >= op.pre.mPropCount
           /\ SameProps(item, op.pre, op.pre.mPropCount)
           /\ item.mPropCount > op.pre.mPropCount =>
                  /\ item.mPid = h.pid
                  /\ item.mUid = h.uid
                  /\ item.mTimestamp = h.timestamp

\* a decode into an Item holding a property failed after the header, with
\* the key replaced and a decoded property left behind
C2_Witness ==
    /\ DecodeFailed
    /\ op.pre.mPropCount > 0
    /\ item.mKey # op.pre.mKey
    /\ item.mPropCount > op.pre.mPropCount

\* a decode into an Item holding a property failed in the fixed header
C2_WitnessHeader ==
    /\ DecodeFailed
    /\ op.pre.mPropCount > 0
    /\ ~readHeader(op.buffer).ok
    /\ readHeader(op.buffer).key # op.pre.mKey

\* C3: readFromByteString never reads a byte at or beyond bufferptr +
\* length, for any buffer contents and any length; a string field with no
\* NUL terminator inside the buffer, whose scan therefore arrives at the
\* end of the buffer, always makes the decode fail.
C3_BoundsSafe ==
    op.fn = "readFromByteString" =>
        /\ ~op.oob
        /\ op.oob => op.status # NO_ERROR

\* the w bytes of the buffer at offset off
FieldAt(b, off, w) == SubSeq(b.bytes, off + 1, off + w)

\* the offsets inside the buffer, from the start of the key on, of a NUL
KeyNuls(b) == {k \in 12..(b.length - 1) : b.bytes[k + 1] = 0}

\* the offset of the NUL that ends the key
KeyNul(b) == CHOOSE k \in KeyNuls(b) : \A j \in KeyNuls(b) : k <= j

\* the offset at which the fixed header fields end: after the key, the
\* pid, the uid and the timestamp
FixedEnd(b) == KeyNul(b) + 1 + 4 + 4 + 8

\* the buffer holds all the fixed header fields
HeaderPresent(b) ==
    /\ b.length >= 12
    /\ KeyNuls(b) # {}
    /\ FixedEnd(b) <= b.length

\* one of the four inconsistencies of the header
HeaderBad(b) ==
    \/ GtLE(FieldAt(b, 0, 4), LE(b.length, 4))
    \/ FieldAt(b, 10, 2) # LE(KeyNul(b) - 12 + 1, 2)
    \/ GtLE(FieldAt(b, 4, 4), FieldAt(b, 0, 4))
    \/ GtLE(LE(FixedEnd(b), 4), FieldAt(b, 4, 4))

\* the fixed fields end before headerSize
HeaderPadded(b) ==
    /\ HeaderPresent(b)
    /\ ~HeaderBad(b)
    /\ GtLE(FieldAt(b, 4, 4), LE(FixedEnd(b), 4))

\* C11: readFromByteString fails for every buffer whose totalSize exceeds
\* the supplied length, whose keyLength differs from the length of the
\* NUL-terminated key plus one, whose headerSize exceeds totalSize, or whose
\* fixed header fields end beyond headerSize; when they end before
\* headerSize the property count is read at headerSize: the decode fails
\* if it is not inside the buffer, and a successful decode has appended as
\* many properties as the four bytes at headerSize say.
C11_HeaderValidation ==
    op.fn = "readFromByteString" =>
        LET b == op.buffer
        IN /\ (HeaderPresent(b) /\ HeaderBad(b)) => op.status # NO_ERROR
           /\ HeaderPadded(b) =>
                  LET at == U32(FieldAt(b, 4, 4))
                  IN /\ at + 4 > b.length => op.status # NO_ERROR
                     /\ op.status = NO_ERROR =>
                            LE(item.mPropCount - op.pre.mPropCount, 4) = FieldAt(b, at, 4)

\* a buffer with a padded header has been decoded, and the properties of
\* the record encoded have been appended
C11_Witness ==
    /\ op.fn = "readFromByteString"
    /\ HeaderPadded(op.buffer)
    /\ op.status = NO_ERROR
    /\ peer.mPropCount > 0
    /\ item.mPropCount = op.pre.mPropCount + peer.mPropCount
    /\ \A i \in 1..peer.mPropCount :
           item.mProps[op.pre.mPropCount + i] = peer.mProps[i]

\* a buffer whose only fault is a key length that is not that of the key
\* has been refused
C11_WitnessKey ==
    /\ op.fn = "readFromByteString"
    /\ HeaderPresent(op.buffer)
    /\ FieldAt(op.buffer, 10, 2) # LE(KeyNul(op.buffer) - 12 + 1, 2)
    /\ ~GtLE(FieldAt(op.buffer, 0, 4), LE(op.buffer.length, 4))
    /\ ~GtLE(FieldAt(op.buffer, 4, 4), FieldAt(op.buffer, 0, 4))
    /\ op.status # NO_ERROR

----------------------------------------------------------------------------
(* The parcel codec: a record is written to a Parcel, and the Parcel is    *)
(* read into another Item                                                  *)

\* setPkgName("p"), setPkgVersionCode(3)
Packaged(it) ==
    [it EXCEPT !.mPkgName = <<112>>, !.mPkgVersionCode = <<3, 0, 0, 0, 0, 0, 0, 0>>]

\* the records written: those of the byte-string codec, with and without a
\* package
ParcelRecords == Records \cup {Packaged(r) : r \in Records}

\* a property of the record has no value
HasNone(it) == \E i \in 1..it.mPropCount : it.mProps[i].mType = kTypeNone

InitParcel ==
    /\ item = NewItem(<<>>)
    /\ peer \in ParcelRecords
    /\ wire = NoWire
    /\ op = Idle
    /\ svc = NoService

\* the sender: peer.writeToParcel(&data); the data stay in the Parcel also
\* when the call fails
WriteToParcel ==
    /\ op.fn = "idle"
    /\ LET e == writeToParcel(peer)
       IN /\ wire' = [NoWire EXCEPT !.bytes = e.data, !.length = Len(e.data),
                                    !.written = e.st = NO_ERROR]
          /\ op' = [Call("writeToParcel", item) EXCEPT
                       !.status = e.st, !.ret = Len(e.data)]
          /\ UNCHANGED <<item, peer, svc>>

\* the receiver: item.readFromParcel(data)
ReadFromParcel ==
    /\ op.fn = "writeToParcel"
    /\ wire.written
    /\ LET d == readFromParcel(item, wire.bytes)
       IN /\ item' = d.item
          /\ op' = [Call("readFromParcel", item) EXCEPT
                       !.buffer = wire, !.status = d.status]
          /\ UNCHANGED <<peer, wire, svc>>

NextParcel ==
    \/ WriteToParcel
    \/ ReadFromParcel

SpecParcel == InitParcel /\ [][NextParcel]_vars

\* C12: a Record with a None-typed property fails to encode and every
\* other Record is encoded; readFromParcel of the data written, into a
\* fresh Item, succeeds and yields the same key, pid, uid, package name,
\* package version code, timestamp and the same properties (name, type,
\* value) in the same order.
C12_ParcelRoundTrip ==
    /\ op.fn = "writeToParcel" => (op.status # NO_ERROR <=> HasNone(peer))
    /\ op.fn = "readFromParcel" =>
           /\ op.status = NO_ERROR
           /\ item.mKey = peer.mKey
           /\ item.mPid = peer.mPid
           /\ item.mUid = peer.mUid
           /\ item.mPkgName = peer.mPkgName
           /\ item.mPkgVersionCode = peer.mPkgVersionCode
           /\ item.mTimestamp = peer.mTimestamp
           /\ item.mPropCount = peer.mPropCount
           /\ SameProps(item, peer, peer.mPropCount)

\* a record with a key, a package, a string and a rate has been read back
C12_Witness ==
    /\ op.fn = "readFromParcel"
    /\ op.status = NO_ERROR
    /\ Len(peer.mKey) > 0
    /\ Len(peer.mPkgName) > 0
    /\ \E i, j \in 1..item.mPropCount :
           /\ item.mProps[i].mType = kTypeCString /\ Len(item.mProps[i].u) > 0
           /\ item.mProps[j].mType = kTypeRate

\* a record with a None-typed property has been refused
C12_WitnessNone ==
    /\ op.fn = "writeToParcel"
    /\ HasNone(peer)
    /\ op.status = BAD_VALUE

----------------------------------------------------------------------------
(* Encoding records whose one property is as long as the format allows.    *)
(* The record is built, encoded and dropped within one step; what is kept  *)
(* is what the caller sees: the status, the length and whether the buffer  *)
(* holds the strings in full.                                              *)

\* how far below UINT16_MAX + 1 the string lengths tried start
LenSlack == 23

\* strlen of the long names and values tried
LongLens == (UINT16_MAX + 1 - LenSlack)..(UINT16_MAX + 1)

\* the bytes of str and its NUL are in bytes from offset at on
Holds(bytes, at, str) ==
    /\ Len(bytes) >= at + Len(str) + 1
    /\ SubSeq(bytes, at + 1, at + Len(str)) = str
    /\ bytes[at + Len(str) + 1] = 0

\* bytes of the header of a record with an empty key, with the property
\* count
EmptyKeyHeader == 4 + 4 + 2 + 2 + 1 + 4 + 4 + 8 + 4

\* Item r; r.set(name, value); r.writeToByteString(&buffer, &length), and
\* what the caller finds in the buffer
EncodeOne(name, type, value) ==
    LET e == writeToByteString(BuildItem(<<>>, << <<name, type, value>> >>))
        at == EmptyKeyHeader + 3
    IN [Call("writeToByteString", item) EXCEPT
           !.nameLen = Len(name),
           !.type = type,
           !.valueLen = IF type = kTypeCString THEN Len(value) ELSE 0,
           !.status = e.status,
           !.ret = e.length,
           !.ok = /\ e.written
                  /\ Len(e.bytes) = e.length
                  /\ Holds(e.bytes, at, name)
                  /\ type = kTypeCString => Holds(e.bytes, at + Len(name) + 1, value)]

InitSize ==
    /\ item = NewItem(<<>>)
    /\ peer = NewItem(<<>>)
    /\ wire = NoWire
    /\ op = Idle
    /\ svc = NoService

\* a long name with a value of each type
EncodeLongName ==
    /\ op.fn = "idle"
    /\ \E n \in LongLens : \E v \in WireValues :
           op' = EncodeOne(Letters(n), v[1], v[2])
    /\ UNCHANGED <<item, peer, wire, svc>>

\* the name "a" with a long string value
EncodeLongValue ==
    /\ op.fn = "idle"
    /\ \E n \in LongLens : op' = EncodeOne(<<97>>, kTypeCString, Letters(n))
    /\ UNCHANGED <<item, peer, wire, svc>>

NextSize ==
    \/ EncodeLongName
    \/ EncodeLongValue

SpecSize == InitSize /\ [][NextSize]_vars

\* the length of the name, or of the string value, with its NUL, is n
LongStringIs(n) ==
    \/ op.nameLen + 1 = n
    \/ op.type = kTypeCString /\ op.valueLen + 1 = n

\* bytes of the value of the property in the encoding
PayloadBytes ==
    CASE op.type = kTypeInt32 -> 4
      [] op.type = kTypeInt64 -> 8
      [] op.type = kTypeDouble -> 8
      [] op.type = kTypeRate -> 16
      [] op.type = kTypeCString -> op.valueLen + 1
      [] OTHER -> 0

\* bytes of the property record: the 16-bit length, the type byte, the name
\* with its NUL, the value
RecordBytes == 2 + 1 + op.nameLen + 1 + PayloadBytes

\* C5 as stated: a Record with one property whose name, or whose CString
\* value, is exactly 65535 bytes long counting the NUL is encoded
\* successfully, and one whose name or CString value is 65536 bytes long
\* fails to encode, with nothing written.
C5_StringBoundary ==
    op.fn = "writeToByteString" =>
        /\ LongStringIs(UINT16_MAX) => op.status = NO_ERROR /\ op.ok
        /\ LongStringIs(UINT16_MAX + 1) => op.status # NO_ERROR /\ ~op.ok

\* C5 amended: the 65535-byte limit of the encoder is on the whole property
\* record (2 length bytes, 1 type byte, the name with its NUL and the
\* value): a Record with one property is encoded successfully exactly when
\* that sum is at most 65535, the strings then being written in full, and
\* fails with INVALID_OPERATION and no buffer when it is 65536 or more; a
\* name or CString value of 65535 bytes therefore never encodes.
C5_RecordBoundary ==
    op.fn = "writeToByteString" =>
        /\ op.status = NO_ERROR <=> RecordBytes <= UINT16_MAX
        /\ op.status = NO_ERROR => op.ok /\ op.ret = EmptyKeyHeader + RecordBytes
        /\ op.status # NO_ERROR => op.status = INVALID_OPERATION /\ ~op.ok
        /\ LongStringIs(UINT16_MAX) => op.status # NO_ERROR

\* a property record of exactly 65535 bytes has been encoded
C5_Witness ==
    /\ op.fn = "writeToByteString"
    /\ RecordBytes = UINT16_MAX
    /\ op.status = NO_ERROR
    /\ op.ok

\* C15: after merge(incoming) the key of the target is the key of incoming
\* when the target had an empty key and is the key it had otherwise, and
\* the key and the properties of incoming are as they were
C15_MergeKey ==
    op.fn = "merge" =>
        /\ item.mKey = IF Len(op.pre.mKey) = 0 THEN op.incoming.mKey
                       ELSE op.pre.mKey
        /\ op.incomingAfter.mKey = op.incoming.mKey
        /\ op.incomingAfter.mPropCount = op.incoming.mPropCount
        /\ SameProps(op.incomingAfter, op.incoming, op.incoming.mPropCount)

\* a merge into a target with a key, of a record with another key
C15_Witness ==
    /\ op.fn = "merge"
    /\ Len(op.pre.mKey) > 0
    /\ op.incoming.mKey # op.pre.mKey
    /\ item.mKey = op.pre.mKey

\* a merge into a target without a key, of a record with a key
C15_WitnessAdopt ==
    /\ op.fn = "merge"
    /\ Len(op.pre.mKey) = 0
    /\ Len(op.incoming.mKey) > 0
    /\ item.mKey = op.incoming.mKey

\* C16: every slot at an index >= mPropCount is as Prop() makes it, and
\* allocateProp(name) for a name that is not stored returns a slot that
\* holds the name, type None and no value
C16_FreshSlot ==
    /\ \A i \in (item.mPropCount + 1)..Len(item.mProps) : item.mProps[i] = Prop
    /\ (op.fn = "allocateProp" /\ op.ret = op.pre.mPropCount) =>
           item.mProps[op.ret + 1] = setName(Prop, op.name)

\* bytes the value of a property of each type takes in its record
ValueBytes(p) ==
    CASE p.mType = kTypeInt32 -> 4
      [] p.mType = kTypeInt64 -> 8
      [] p.mType = kTypeDouble -> 8
      [] p.mType = kTypeRate -> 16
      [] p.mType = kTypeCString -> Len(p.u) + 1
      [] OTHER -> 0

\* bytes of the record of a property: the 2-byte length, the type byte, the
\* name with its NUL and the value
RecordLength(p) == 2 + 1 + Len(p.mName) + 1 + ValueBytes(p)

\* from offset at on the buffer holds the records of the properties i..n of
\* it back to back, each with its own byte length in its length field and
\* its name after the type byte, and the last one ends where the buffer ends
RECURSIVE RecordsTile(_, _, _, _)
RecordsTile(b, it, i, at) ==
    IF i > it.mPropCount THEN at = b.length
    ELSE LET p == it.mProps[i]
         IN /\ at + RecordLength(p) <= b.length
            /\ FieldAt(b, at, 2) = LE(RecordLength(p), 2)
            /\ Holds(b.bytes, at + 3, p.mName)
            /\ RecordsTile(b, it, i + 1, at + RecordLength(p))

\* C17: writeToByteString fails only for a key or a property record that
\* does not fit 16 bits, never because the bytes written differ from the
\* size planned; a failure leaves *pbuffer and *plength unwritten; on
\* success the length returned is the number of bytes written and the
\* totalSize field, headerSize is the offset of the propertyCount field, and
\* the property records follow back to back, each with its byte length
\* (the 2 bytes of the length field counted) in its recordLength field
C17_SizeConsistent ==
    op.fn = "writeToByteString" =>
        LET header_size == 4 + 4 + 2 + 2 + (op.keyLen + 1) + 4 + 4 + 8
            fits == /\ op.keyLen + 1 <= UINT16_MAX
                    /\ \A i \in 1..peer.mPropCount :
                           RecordLength(peer.mProps[i]) <= UINT16_MAX
        IN /\ (op.status = NO_ERROR) = fits
           /\ op.status # NO_ERROR =>
                  /\ ~wire.written
                  /\ wire.bytes = <<>>
                  /\ wire.length = 0
           /\ op.status = NO_ERROR =>
                  /\ wire.written
                  /\ op.ret = wire.length
                  /\ Len(wire.bytes) = wire.length
                  /\ FieldAt(wire, 0, 4) = LE(wire.length, 4)
                  /\ FieldAt(wire, 4, 4) = LE(header_size, 4)
                  /\ FieldAt(wire, header_size, 4) = LE(peer.mPropCount, 4)
                  /\ RecordsTile(wire, peer, 1, header_size + 4)

\* a record with a key, a property without a value and a string property,
\* encoded successfully
C17_Witness ==
    /\ op.fn = "writeToByteString"
    /\ op.status = NO_ERROR
    /\ op.keyLen > 0
    /\ peer.mPropCount = 2
    /\ peer.mProps[1].mType = kTypeNone
    /\ peer.mProps[2].mType = kTypeCString
    /\ wire.written

\* a record with properties whose key is too long, refused
C17_WitnessFailure ==
    /\ op.fn = "writeToByteString"
    /\ op.status = INVALID_OPERATION
    /\ op.keyLen + 1 > UINT16_MAX
    /\ peer.mPropCount > 0
    /\ ~wire.written

----------------------------------------------------------------------------
(* getInstance and dropInstance called from several threads                *)

InitService ==
    /\ item = NewItem(<<>>)
    /\ peer = NewItem(<<>>)
    /\ wire = NoWire
    /\ op = Idle
    /\ svc \in {[NoService EXCEPT !.enabled = e] : e \in BOOLEAN}

\* thread t enters getInstance: with the process disabled it returns nullptr
\* at once, otherwise it goes for the mutex
GetInstanceCall(t) ==
    /\ svc.th[t].pc = "idle"
    /\ svc' = [svc EXCEPT !.awaiting = FALSE,
                          !.th[t] = [Caller EXCEPT
                              !.pc = IF svc.enabled THEN "lock" ELSE "return",
                              !.exhausted = svc.fails >= SVC_TRIES,
                              !.first = svc.awaiting]]
    /\ UNCHANGED <<item, peer, wire, op>>

\* the lock_guard of getInstance: t waits until the mutex is free
GetInstanceLock(t) ==
    /\ svc.th[t].pc = "lock"
    /\ svc.sServiceMutex = 0
    /\ svc' = [svc EXCEPT !.sServiceMutex = t, !.fresh = FALSE,
                          !.th[t].pc = "locked",
                          !.th[t].firstIn = svc.fresh]
    /\ UNCHANGED <<item, peer, wire, op>>

\* the body of getInstance under the mutex, for each result of the lookup
GetInstanceLocked(t) ==
    /\ svc.th[t].pc = "locked"
    /\ \E lookup \in Lookups :
           LET r == getInstanceLocked(svc, lookup)
               failed == r.looked /\ r.s.sMediaMetricsService = nullptr
           IN svc' = [r.s EXCEPT
                         !.fails = IF failed /\ @ < SVC_TRIES THEN @ + 1 ELSE @,
                         !.th[t].pc = "unlock",
                         !.th[t].looked = r.looked,
                         !.th[t].handle = r.s.sMediaMetricsService]
    /\ UNCHANGED <<item, peer, wire, op>>

\* the lock_guard of getInstance goes out of scope
GetInstanceUnlock(t) ==
    /\ svc.th[t].pc = "unlock"
    /\ svc' = [svc EXCEPT !.sServiceMutex = 0, !.th[t].pc = "return"]
    /\ UNCHANGED <<item, peer, wire, op>>

\* the caller of getInstance has its handle and goes on
GetInstanceReturn(t) ==
    /\ svc.th[t].pc = "return"
    /\ svc' = [svc EXCEPT !.th[t] = Caller]
    /\ UNCHANGED <<item, peer, wire, op>>

\* thread t enters dropInstance and takes the mutex
DropInstanceLock(t) ==
    /\ svc.th[t].pc = "idle"
    /\ svc.sServiceMutex = 0
    /\ svc' = [svc EXCEPT !.sServiceMutex = t, !.th[t].pc = "dropping"]
    /\ UNCHANGED <<item, peer, wire, op>>

\* the body of dropInstance under the mutex; every getInstance call under
\* way has now seen a dropInstance
DropInstanceLocked(t) ==
    /\ svc.th[t].pc = "dropping"
    /\ LET s == dropInstanceLocked(svc)
       IN svc' = [s EXCEPT
                     !.fails = 0,
                     !.th = [u \in Threads |->
                                IF u = t THEN [s.th[u] EXCEPT !.pc = "dropped"]
                                ELSE IF s.th[u].pc = "idle" THEN s.th[u]
                                ELSE [s.th[u] EXCEPT !.dropped = TRUE]]]
    /\ UNCHANGED <<item, peer, wire, op>>

\* dropInstance releases the mutex and returns
DropInstanceUnlock(t) ==
    /\ svc.th[t].pc = "dropped"
    /\ svc' = [svc EXCEPT !.sServiceMutex = 0, !.awaiting = TRUE,
                          !.fresh = TRUE, !.th[t] = Caller]
    /\ UNCHANGED <<item, peer, wire, op>>

NextService ==
    \E t \in Threads :
        \/ GetInstanceCall(t)
        \/ GetInstanceLock(t)
        \/ GetInstanceLocked(t)
        \/ GetInstanceUnlock(t)
        \/ GetInstanceReturn(t)
        \/ DropInstanceLock(t)
        \/ DropInstanceLocked(t)
        \/ DropInstanceUnlock(t)

SpecService == InitService /\ [][NextService]_vars

\* the threads whose getInstance call has its result
Returning == {t \in Threads : svc.th[t].pc \in {"unlock", "return"}}

\* C13: the attempts left stay within 0..SVC_TRIES, and once SVC_TRIES
\* lookups have failed with no dropInstance since the first of them, there
\* is no handle and no attempt left, and a getInstance call that begins then
\* and sees no dropInstance makes no lookup and returns nullptr
C13_BoundedAttempts ==
    /\ svc.sRemainingBindAttempts \in 0..SVC_TRIES
    /\ svc.fails >= SVC_TRIES =>
           /\ svc.sMediaMetricsService = nullptr
           /\ svc.sRemainingBindAttempts = 0
    /\ \A t \in Returning :
           (svc.th[t].exhausted /\ ~svc.th[t].dropped) =>
               /\ ~svc.th[t].looked
               /\ svc.th[t].handle = nullptr

\* an enabled process in which a getInstance call that began after SVC_TRIES
\* failed lookups went through the mutex and returns nullptr with no lookup
C13_Witness ==
    \E t \in Threads :
        /\ svc.enabled
        /\ svc.th[t].pc = "return"
        /\ svc.th[t].exhausted
        /\ ~svc.th[t].dropped
        /\ ~svc.th[t].looked
        /\ svc.th[t].handle = nullptr

\* C14 as stated: in an enabled process, the first getInstance call that
\* begins after a dropInstance has completed makes a lookup
C14_FirstStarter ==
    \A t \in Returning :
        (svc.enabled /\ svc.th[t].first) => svc.th[t].looked

\* C14: only the holder of sServiceMutex is inside getInstance's or
\* dropInstance's body; from the moment a dropInstance releases the mutex
\* until a getInstance takes it there is no handle and SVC_TRIES attempts
\* are left; and the first getInstance call to take the mutex after a
\* dropInstance released it makes a lookup
C14_Reset ==
    /\ \A t \in Threads :
           svc.th[t].pc \in {"locked", "unlock", "dropping", "dropped"} =>
               svc.sServiceMutex = t
    /\ svc.fresh =>
           /\ svc.sMediaMetricsService = nullptr
           /\ svc.sRemainingBindAttempts = SVC_TRIES
    /\ \A t \in Returning : svc.th[t].firstIn => svc.th[t].looked

\* a getInstance call that began when the attempts were used up, saw a
\* dropInstance, was the first to take the mutex after it and made a lookup
C14_Witness ==
    \E t \in Threads :
        /\ svc.th[t].pc = "return"
        /\ svc.th[t].exhausted
        /\ svc.th[t].dropped
        /\ svc.th[t].firstIn
        /\ svc.th[t].looked

====
